---- MODULE Spec2Model ----
(***************************************************************************)
(* Model of dynfunc: populate_args resolves the arguments of a callable    *)
(* from a data mapping by inspecting its signature; call_with_args         *)
(* resolves and then invokes the callable.                                 *)
(*                                                                         *)
(* A caller holds one callable and calls populate_args / call_with_args    *)
(* on it with data mappings of its choice.  The state keeps the last call  *)
(* (operation, mapping, outcome, parameters looked up, invocations of the  *)
(* callable) and, when the call was repeated, the call before it.          *)
(***************************************************************************)
EXTENDS Integers, Sequences, FiniteSets, TLC

\* ---------------------------------------------------------------- bounds
MaxParams == 2      \* declared parameters per callable
MaxKeys == 2        \* keys per data mapping

\* ------------------------------------------------------- inspect.Parameter
POSITIONAL_ONLY == "POSITIONAL_ONLY"
POSITIONAL_OR_KEYWORD == "POSITIONAL_OR_KEYWORD"
VAR_POSITIONAL == "VAR_POSITIONAL"
KEYWORD_ONLY == "KEYWORD_ONLY"
VAR_KEYWORD == "VAR_KEYWORD"

Kinds == {POSITIONAL_ONLY, POSITIONAL_OR_KEYWORD, VAR_POSITIONAL,
          KEYWORD_ONLY, VAR_KEYWORD}

\* Parameter.empty: the "no default" sentinel (never a data value)
empty == 0

\* the order in which a signature may declare the kinds
KindRank(k) ==
    CASE k = POSITIONAL_ONLY -> 1
      [] k = POSITIONAL_OR_KEYWORD -> 2
      [] k = VAR_POSITIONAL -> 3
      [] k = KEYWORD_ONLY -> 4
      [] k = VAR_KEYWORD -> 5

ParamNames == <<"a", "b", "c", "d">>
ExtraKey == "s"
\* the code never inspects a value, it only moves it: two values tell a
\* mapping's value from another one and from a default
Values == {1, 2}
DefaultValues == {1}
NoName == ""

Keys == {ParamNames[i] : i \in 1..MaxParams} \cup {ExtraKey}

\* a declared parameter: name, kind, default (empty when it has none)
Params == [name : {ParamNames[i] : i \in 1..MaxParams},
           kind : Kinds,
           default : {empty} \cup DefaultValues]

IsVar(k) == k \in {VAR_POSITIONAL, VAR_KEYWORD}

\* the signatures inspect.signature can return: distinct names, kinds in
\* rank order, at most one parameter of each variable kind and no default on
\* it, no parameter without default after a positional one with a default
ValidSignature(ps) ==
    /\ \A i \in 1..Len(ps) : ps[i].name = ParamNames[i]
    /\ \A i \in 1..Len(ps) : IsVar(ps[i].kind) => ps[i].default = empty
    /\ \A i, j \in 1..Len(ps) : i < j =>
          /\ KindRank(ps[i].kind) <= KindRank(ps[j].kind)
          /\ IsVar(ps[i].kind) => ps[i].kind # ps[j].kind
          /\ (KindRank(ps[j].kind) <= 2 /\ ps[i].default # empty)
                => ps[j].default # empty

SeqsUpTo(S, n) == UNION {[1..k -> S] : k \in 0..n}

Signatures == {ps \in SeqsUpTo(Params, MaxParams) : ValidSignature(ps)}

\* what the callable does with its bound arguments: return them as a tuple
\* or raise an error of its own carrying them
Bodies == {"return", "raise"}

Funcs == [params : Signatures, body : Bodies]

\* a data mapping: a dict, as its items in insertion order
DataMaps == {m \in SeqsUpTo(Keys \X Values, MaxKeys) :
                \A i, j \in 1..Len(m) : i # j => m[i][1] # m[j][1]}

keys(data_map) == [i \in 1..Len(data_map) |-> data_map[i][1]]
HasKey(data_map, k) == \E i \in 1..Len(data_map) : data_map[i][1] = k
GetItem(data_map, k) ==
    data_map[CHOOSE i \in 1..Len(data_map) : data_map[i][1] = k][2]

\* ------------------------------------------------------------- outcomes
NoKwargs == [k \in {} |-> 0]

\* the outcome of a call: what it returned or what it raised
Blank == [kind |-> "none", args |-> <<>>, kwargs |-> NoKwargs,
          name |-> NoName, pkind |-> NoName, valid_args |-> <<>>,
          value |-> <<>>]

\* class ParameterError: carries name and valid_args
ParameterError(name, valid_args) ==
    [Blank EXCEPT !.kind = "ParameterError", !.name = name,
                  !.valid_args = valid_args]

\* faulty variant: both messages name the VAR_KEYWORD kind
UnableToPopulate_one_kind(pkind, key) ==
    [Blank EXCEPT !.kind = "TypeError", !.name = key, !.pkind = VAR_KEYWORD]

\* TypeError("Unable to populate <kind> parameter '<key>'")
UnableToPopulate(pkind, key) ==
    [Blank EXCEPT !.kind = "TypeError", !.name = key, !.pkind = pkind]

\* the TypeError the interpreter raises when arguments do not fit a signature
BindError == [Blank EXCEPT !.kind = "TypeError", !.pkind = "bind"]

IsError(out) == out.kind \in {"ParameterError", "TypeError", "raised"}

\* ------------------------------------------------------- _get_arg_value
\* faulty variant: the declared default wins over a value present in the mapping
_get_arg_value_default_first(param, data_map) ==
    IF param.default # empty
    THEN [raised |-> FALSE, value |-> param.default, error |-> Blank]
    ELSE IF HasKey(data_map, param.name)
    THEN [raised |-> FALSE, value |-> GetItem(data_map, param.name),
          error |-> Blank]
    ELSE [raised |-> TRUE, value |-> empty,
          error |-> ParameterError(param.name, keys(data_map))]

\* faulty variant: valid_args lists only the keys that name the parameter (none)
_get_arg_value_no_keys(param, data_map) ==
    IF HasKey(data_map, param.name)
    THEN [raised |-> FALSE, value |-> GetItem(data_map, param.name),
          error |-> Blank]
    ELSE IF param.default = empty
    THEN [raised |-> TRUE, value |-> empty,
          error |-> ParameterError(param.name, <<>>)]
    ELSE [raised |-> FALSE, value |-> param.default, error |-> Blank]

\* faulty variant: a missing key of a parameter with a default is an error too
_get_arg_value_strict(param, data_map) ==
    IF HasKey(data_map, param.name)
    THEN [raised |-> FALSE, value |-> GetItem(data_map, param.name),
          error |-> Blank]
    ELSE [raised |-> TRUE, value |-> empty,
          error |-> ParameterError(param.name, keys(data_map))]

\* data_map[param.name]; on KeyError the default, or ParameterError with the
\* missing key and list(data_map.keys()) when the default is empty
_get_arg_value(param, data_map) ==
    IF HasKey(data_map, param.name)
    THEN [raised |-> FALSE, value |-> GetItem(data_map, param.name),
          error |-> Blank]
    ELSE IF param.default = empty
    THEN [raised |-> TRUE, value |-> empty,
          error |-> ParameterError(param.name, keys(data_map))]
    ELSE [raised |-> FALSE, value |-> param.default, error |-> Blank]

\* --------------------------------------------------------- populate_args
\* faulty variant: args.insert(0, value)
_args_add_front(args, value) == <<value>> \o args

\* _args_add = args.append
_args_add(args, value) == Append(args, value)

\* _kwargs_add = kwargs.__setitem__
_kwargs_add(kwargs, key, value) == (key :> value) @@ kwargs

\* the loop over sig.parameters.items() from the i-th parameter on, with the
\* args and kwargs built and the names looked up so far
RECURSIVE populate_loop(_, _, _, _, _, _)
populate_loop(params, data_map, i, args, kwargs, looked) ==
    IF i > Len(params)
    THEN [out |-> [Blank EXCEPT !.kind = "resolved", !.args = args,
                                !.kwargs = kwargs],
          looked |-> looked]
    ELSE LET param == params[i]
             key == param.name
             got == _get_arg_value(param, data_map)
         IN CASE param.kind = KEYWORD_ONLY ->
                   IF got.raised
                   THEN [out |-> got.error, looked |-> Append(looked, key)]
                   ELSE populate_loop(params, data_map, i + 1, args,
                                      _kwargs_add(kwargs, key, got.value),
                                      Append(looked, key))
              [] param.kind = POSITIONAL_ONLY ->
                   IF got.raised
                   THEN [out |-> got.error, looked |-> Append(looked, key)]
                   ELSE populate_loop(params, data_map, i + 1,
                                      _args_add(args, got.value), kwargs,
                                      Append(looked, key))
              [] param.kind = POSITIONAL_OR_KEYWORD ->
                   IF got.raised
                   THEN [out |-> got.error, looked |-> Append(looked, key)]
                   ELSE populate_loop(params, data_map, i + 1, args,
                                      _kwargs_add(kwargs, key, got.value),
                                      Append(looked, key))
              [] param.kind = VAR_KEYWORD ->
                   [out |-> UnableToPopulate(VAR_KEYWORD, key),
                    looked |-> looked]
              [] param.kind = VAR_POSITIONAL ->
                   [out |-> UnableToPopulate(VAR_POSITIONAL, key),
                    looked |-> looked]
              [] OTHER ->
                   [out |-> UnableToPopulate("Unknown", key),
                    looked |-> looked]

FirstVar(params) ==
    CHOOSE i \in 1..Len(params) :
        /\ IsVar(params[i].kind)
        /\ \A j \in 1..(i - 1) : ~IsVar(params[j].kind)

\* faulty variant: the signature is checked for variable parameters before any
\* parameter is looked up
populate_args_check_first(func, data_map) ==
    IF \E i \in 1..Len(func.params) : IsVar(func.params[i].kind)
    THEN [out |-> UnableToPopulate(func.params[FirstVar(func.params)].kind,
                                   func.params[FirstVar(func.params)].name),
          looked |-> <<>>]
    ELSE populate_loop(func.params, data_map, 1, <<>>, NoKwargs, <<>>)

\* faulty variant: variable parameters are skipped instead of rejected
populate_args_skip_var(func, data_map) ==
    populate_loop(SelectSeq(func.params, LAMBDA p : ~IsVar(p.kind)),
                  data_map, 1, <<>>, NoKwargs, <<>>)

\* faulty variant: a key of the mapping that names no parameter is rejected
populate_args_reject_extra(func, data_map) ==
    IF \E i \in 1..Len(data_map) :
          \A j \in 1..Len(func.params) : func.params[j].name # data_map[i][1]
    THEN [out |-> ParameterError(ExtraKey, keys(data_map)), looked |-> <<>>]
    ELSE populate_loop(func.params, data_map, 1, <<>>, NoKwargs, <<>>)

\* faulty variant: the whole mapping is passed on as keyword arguments
populate_args_pass_extra(func, data_map) ==
    LET r == populate_loop(func.params, data_map, 1, <<>>, NoKwargs, <<>>)
        all == [k \in {data_map[i][1] : i \in 1..Len(data_map)} |->
                   GetItem(data_map, k)]
    IN IF r.out.kind = "resolved"
       THEN [r EXCEPT !.out.kwargs = r.out.kwargs @@ all]
       ELSE r

\* populate_args(func, data_map): (args, kwargs), or the first error
populate_args(func, data_map) ==
    populate_loop(func.params, data_map, 1, <<>>, NoKwargs, <<>>)

\* ------------------------------------------------------ func(*args, **kwargs)
\* the parameters that take positional arguments, in declared order
PositionalIdx(params) ==
    {i \in 1..Len(params) :
        params[i].kind \in {POSITIONAL_ONLY, POSITIONAL_OR_KEYWORD}}

\* the position among the positional parameters of the i-th parameter
PosOf(params, i) == Cardinality({j \in PositionalIdx(params) : j <= i})

HasKind(params, k) == \E i \in 1..Len(params) : params[i].kind = k

\* the i-th parameter can be passed by name
ByName(params, i) == params[i].kind \in {POSITIONAL_OR_KEYWORD, KEYWORD_ONLY}

\* the arguments fit the signature: no surplus positional argument or
\* keyword unless a variable parameter collects it, no parameter given
\* twice, no parameter without default left out
BindOK(params, args, kwargs) ==
    /\ Len(args) > Cardinality(PositionalIdx(params))
          => HasKind(params, VAR_POSITIONAL)
    /\ \A k \in DOMAIN kwargs :
          \/ \E i \in 1..Len(params) :
                /\ params[i].name = k
                /\ ByName(params, i)
                /\ ~(i \in PositionalIdx(params)
                        /\ PosOf(params, i) <= Len(args))
          \/ /\ HasKind(params, VAR_KEYWORD)
             /\ \A i \in 1..Len(params) :
                   params[i].name = k => ~ByName(params, i)
    /\ \A i \in 1..Len(params) :
          \/ IsVar(params[i].kind)
          \/ i \in PositionalIdx(params) /\ PosOf(params, i) <= Len(args)
          \/ ByName(params, i) /\ params[i].name \in DOMAIN kwargs
          \/ params[i].default # empty

\* the value the i-th parameter is bound to
BoundValue(params, args, kwargs, i) ==
    CASE params[i].kind = VAR_POSITIONAL ->
            Len(args) - Cardinality(PositionalIdx(params))
      [] params[i].kind = VAR_KEYWORD ->
            Cardinality({k \in DOMAIN kwargs :
                \A j \in 1..Len(params) :
                    params[j].name = k => ~ByName(params, j)})
      [] i \in PositionalIdx(params) /\ PosOf(params, i) <= Len(args) ->
            args[PosOf(params, i)]
      [] ByName(params, i) /\ params[i].name \in DOMAIN kwargs ->
            kwargs[params[i].name]
      [] OTHER -> params[i].default

\* func(*args, **kwargs): bind the arguments, then run the body on them
Invoke(func, args, kwargs) ==
    IF ~BindOK(func.params, args, kwargs)
    THEN BindError
    ELSE LET bound == [i \in 1..Len(func.params) |->
                          BoundValue(func.params, args, kwargs, i)]
         IN IF func.body = "return"
            THEN [Blank EXCEPT !.kind = "returned", !.value = bound]
            ELSE [Blank EXCEPT !.kind = "raised", !.value = bound]

\* -------------------------------------------------------- call_with_args
\* faulty variant: a resolution error is swallowed and the callable is called with
\* no arguments
call_with_args_fallback(func, arg_data) ==
    LET r == populate_args(func, arg_data)
    IN IF r.out.kind # "resolved"
       THEN [out |-> Invoke(func, <<>>, NoKwargs), looked |-> r.looked,
             invocations |-> << <<<<>>, NoKwargs>> >>]
       ELSE [out |-> Invoke(func, r.out.args, r.out.kwargs),
             looked |-> r.looked,
             invocations |-> << <<r.out.args, r.out.kwargs>> >>]

\* args, kwargs = populate_args(func, arg_data); return func(*args, **kwargs)
call_with_args(func, arg_data) ==
    LET r == populate_args(func, arg_data)
    IN IF r.out.kind # "resolved"
       THEN [out |-> r.out, looked |-> r.looked, invocations |-> <<>>]
       ELSE [out |-> Invoke(func, r.out.args, r.out.kwargs),
             looked |-> r.looked,
             invocations |-> << <<r.out.args, r.out.kwargs>> >>]

\* ----------------------------------------------------------------- state
VARIABLES
    func,          \* the callable the caller holds
    op,            \* the last call: "none", "populate_args", "call_with_args"
    arg_data,      \* its data mapping
    outcome,       \* what it returned or raised
    looked,        \* the parameter names it looked up, in order
    invocations,   \* the (args, kwargs) it invoked the callable with
    prev_op,       \* the call before the last one
    prev_data,
    prev_outcome

vars == <<func, op, arg_data, outcome, looked, invocations,
          prev_op, prev_data, prev_outcome>>

Init ==
    /\ func \in Funcs
    /\ op = "none"
    /\ arg_data = <<>>
    /\ outcome = Blank
    /\ looked = <<>>
    /\ invocations = <<>>
    /\ prev_op = "none"
    /\ prev_data = <<>>
    /\ prev_outcome = Blank

\* the names the signature of func declares
ParamNamesOf(f) == {f.params[i].name : i \in 1..Len(f.params)}

\* two mappings that differ only in keys func does not declare
Agree(f, m1, m2) ==
    \A k \in ParamNamesOf(f) :
        /\ HasKey(m1, k) <=> HasKey(m2, k)
        /\ HasKey(m1, k) => GetItem(m1, k) = GetItem(m2, k)

\* the mapping without its entry for the key no callable declares
WithoutExtra(m) == SelectSeq(m, LAMBDA e : e[1] # ExtraKey)

\* seq with entry e put at position p + 1
InsertAt(seq, p, e) ==
    [i \in 1..(Len(seq) + 1) |->
        IF i <= p THEN seq[i] ELSE IF i = p + 1 THEN e ELSE seq[i - 1]]

\* the mappings that are m with the unused key added, dropped, moved or
\* given another value
ExtraEdits(m) ==
    LET base == WithoutExtra(m)
        with == IF Len(base) < MaxKeys
                THEN {InsertAt(base, p, <<ExtraKey, v>>) :
                         p \in 0..Len(base), v \in Values}
                ELSE {}
    IN (with \cup {base}) \ {m}

Forget ==
    /\ prev_op' = "none"
    /\ prev_data' = <<>>
    /\ prev_outcome' = Blank
    /\ UNCHANGED func

Remember ==
    /\ prev_op' = op
    /\ prev_data' = arg_data
    /\ prev_outcome' = outcome
    /\ UNCHANGED func

\* the caller calls populate_args(func, m)
PopulateArgs ==
    /\ op = "none"
    /\ \E m \in DataMaps :
        LET r == populate_args(func, m)
        IN /\ op' = "populate_args"
           /\ arg_data' = m
           /\ outcome' = r.out
           /\ looked' = r.looked
           /\ invocations' = <<>>
           /\ Forget

\* the caller calls call_with_args(func, m)
CallWithArgs ==
    /\ op = "none"
    /\ \E m \in DataMaps :
        LET r == call_with_args(func, m)
        IN /\ op' = "call_with_args"
           /\ arg_data' = m
           /\ outcome' = r.out
           /\ looked' = r.looked
           /\ invocations' = r.invocations
           /\ Forget

\* the caller calls populate_args once more, on the first mapping with the
\* unused key added, dropped or changed
PopulateArgsAgain ==
    /\ op = "populate_args"
    /\ prev_op = "none"
    /\ \E m \in ExtraEdits(arg_data) :
        LET r == populate_args(func, m)
        IN /\ Agree(func, arg_data, m)
           /\ op' = "populate_args"
           /\ arg_data' = m
           /\ outcome' = r.out
           /\ looked' = r.looked
           /\ invocations' = <<>>
           /\ Remember

\* the caller calls call_with_args once more, likewise
CallWithArgsAgain ==
    /\ op = "call_with_args"
    /\ prev_op = "none"
    /\ \E m \in ExtraEdits(arg_data) :
        LET r == call_with_args(func, m)
        IN /\ Agree(func, arg_data, m)
           /\ op' = "call_with_args"
           /\ arg_data' = m
           /\ outcome' = r.out
           /\ looked' = r.looked
           /\ invocations' = r.invocations
           /\ Remember

Next ==
    \/ PopulateArgs
    \/ CallWithArgs
    \/ PopulateArgsAgain
    \/ CallWithArgsAgain

Spec == Init /\ [][Next]_vars

TypeOK ==
    /\ func \in Funcs
    /\ op \in {"none", "populate_args", "call_with_args"}
    /\ arg_data \in DataMaps
    /\ prev_data \in DataMaps
    /\ outcome.kind \in {"none", "resolved", "returned", "raised",
                         "ParameterError", "TypeError"}

\* ------------------------------------------------------------ properties
Called == op # "none"
N == Len(func.params)

\* the value a parameter takes: the mapping's, else the declared default
Resolved(p, m) == IF HasKey(m, p.name) THEN GetItem(m, p.name) ELSE p.default

Missing(p, m) == ~IsVar(p.kind) /\ p.default = empty /\ ~HasKey(m, p.name)

\* the parameter cannot be resolved from the mapping
Fails(p, m) == IsVar(p.kind) \/ Missing(p, m)

AnyFails == \E i \in 1..N : Fails(func.params[i], arg_data)

\* the first declared parameter that cannot be resolved
FirstFailing ==
    CHOOSE i \in 1..N :
        /\ Fails(func.params[i], arg_data)
        /\ \A j \in 1..(i - 1) : ~Fails(func.params[j], arg_data)

HasVar == \E i \in 1..N : IsVar(func.params[i].kind)

IsMissingParameter(out, name, valid_args) ==
    /\ out.kind = "ParameterError"
    /\ out.name = name
    /\ out.valid_args = valid_args

IsUnsupportedKind(out, name, pkind) ==
    /\ out.kind = "TypeError"
    /\ out.name = name
    /\ out.pkind = pkind

\* the outcome is the error that belongs to the i-th parameter
IsErrorOf(out, i) ==
    IF IsVar(func.params[i].kind)
    THEN IsUnsupportedKind(out, func.params[i].name, func.params[i].kind)
    ELSE IsMissingParameter(out, func.params[i].name, keys(arg_data))

\* the last call computed a Resolved Call: populate_args returned it, or
\* call_with_args invoked the callable with it
HasResolvedCall ==
    \/ op = "populate_args" /\ outcome.kind = "resolved"
    \/ op = "call_with_args" /\ Len(invocations) = 1

positional_args ==
    IF op = "populate_args" THEN outcome.args ELSE invocations[1][1]

keyword_args ==
    IF op = "populate_args" THEN outcome.kwargs ELSE invocations[1][2]

PositionalOnly == SelectSeq(func.params, LAMBDA p : p.kind = POSITIONAL_ONLY)

KeywordNames ==
    {func.params[i].name : i \in {j \in 1..N : ByName(func.params, j)}}

ParamNamed(n) == func.params[CHOOSE i \in 1..N : func.params[i].name = n]

\* the Resolved Call carries value v for the i-th parameter
Carries(i, v) ==
    IF func.params[i].kind = POSITIONAL_ONLY
    THEN /\ i <= Len(positional_args)
         /\ positional_args[i] = v
    ELSE /\ func.params[i].name \in DOMAIN keyword_args
         /\ keyword_args[func.params[i].name] = v

AllByNameAndPresent ==
    /\ \A i \in 1..N : ByName(func.params, i)
    /\ \A i \in 1..N : HasKey(arg_data, func.params[i].name)

\* C1: for a callable whose parameters are all positional-or-keyword or
\* keyword-only and a mapping with a key for each of them, call_with_args
\* yields what calling func(name=mapping[name], ...) directly yields.
C1_DirectCall ==
    (op = "call_with_args" /\ AllByNameAndPresent) =>
        outcome = Invoke(func, <<>>,
                         [n \in ParamNamesOf(func) |-> GetItem(arg_data, n)])

C1_Witness ==
    /\ op = "call_with_args"
    /\ AllByNameAndPresent
    /\ outcome.kind = "returned"
    /\ HasKey(arg_data, ExtraKey)
    /\ \E i \in 1..N :
          /\ func.params[i].default # empty
          /\ GetItem(arg_data, func.params[i].name) # func.params[i].default

\* C2 as stated: every parameter without a default whose key is omitted
\* makes the call raise ParameterError with that parameter's name and the
\* list of the mapping's keys.
C2_Original ==
    Called =>
        \A i \in 1..N :
            Missing(func.params[i], arg_data) =>
                IsMissingParameter(outcome, func.params[i].name,
                                   keys(arg_data))

\* C2 amended: a parameter without a default whose key is omitted makes the
\* call raise; the error is ParameterError with that parameter's name and
\* the list of the mapping's keys when no parameter declared before it
\* fails (is missing without default, or of a variable kind).
C2_MissingParameter ==
    Called =>
        \A i \in 1..N :
            Missing(func.params[i], arg_data) =>
                /\ outcome.kind \in {"ParameterError", "TypeError"}
                /\ invocations = <<>>
                /\ (\A j \in 1..(i - 1) : ~Fails(func.params[j], arg_data))
                      => IsMissingParameter(outcome, func.params[i].name,
                                            keys(arg_data))

C2_Witness ==
    /\ Called
    /\ Len(arg_data) >= 2
    /\ \E i \in 1..N :
          /\ Missing(func.params[i], arg_data)
          /\ \A j \in 1..(i - 1) : ~Fails(func.params[j], arg_data)
          /\ outcome.kind = "ParameterError"
          /\ outcome.name = func.params[i].name

\* C3 as stated: every parameter with a default whose key is omitted yields
\* a Resolved Call that carries the default, not an error.
C3_Original ==
    Called =>
        \A i \in 1..N :
            (func.params[i].default # empty
                /\ ~HasKey(arg_data, func.params[i].name)) =>
                /\ HasResolvedCall
                /\ Carries(i, func.params[i].default)

\* C3 amended: omitting the key of a parameter with a default is never the
\* error of the call; the call yields a Resolved Call unless another
\* declared parameter fails, and the Resolved Call carries the default.
C3_DefaultUsed ==
    Called =>
        \A i \in 1..N :
            (func.params[i].default # empty
                /\ ~HasKey(arg_data, func.params[i].name)) =>
                /\ ~(outcome.kind \in {"ParameterError", "TypeError"}
                        /\ outcome.name = func.params[i].name)
                /\ HasResolvedCall <=>
                      \A j \in 1..N : ~Fails(func.params[j], arg_data)
                /\ HasResolvedCall => Carries(i, func.params[i].default)

C3_Witness ==
    /\ Called
    /\ HasResolvedCall
    /\ arg_data # <<>>
    /\ \E i \in 1..N :
          /\ func.params[i].default # empty
          /\ ~HasKey(arg_data, func.params[i].name)
          /\ Carries(i, func.params[i].default)

\* C4 as stated: a callable that declares a variable parameter always gets
\* TypeError naming that parameter and its kind, whatever the mapping and
\* its other parameters.
C4_Original ==
    (Called /\ HasVar) =>
        \E i \in 1..N :
            /\ IsVar(func.params[i].kind)
            /\ IsUnsupportedKind(outcome, func.params[i].name,
                                 func.params[i].kind)

\* C4 amended: a callable that declares a variable parameter always gets an
\* error: TypeError naming its first variable parameter and its kind,
\* unless a parameter declared before that one has no default and no key
\* in the mapping, and then ParameterError for the first such parameter.
C4_UnsupportedKind ==
    (Called /\ HasVar) =>
        /\ AnyFails
        /\ IsErrorOf(outcome, FirstFailing)
        /\ (\A j \in 1..(FirstVar(func.params) - 1) :
               ~Missing(func.params[j], arg_data))
              => IsUnsupportedKind(outcome,
                                   func.params[FirstVar(func.params)].name,
                                   func.params[FirstVar(func.params)].kind)

C4_Witness ==
    /\ Called
    /\ N >= 2
    /\ func.params[2].kind = VAR_POSITIONAL
    /\ HasKey(arg_data, func.params[1].name)
    /\ outcome.kind = "TypeError"
    /\ outcome.pkind = VAR_POSITIONAL

SameCallAgain ==
    /\ prev_op # "none"
    /\ prev_op = op
    /\ Agree(func, prev_data, arg_data)

\* C5 as stated: two mappings that agree on every declared parameter name
\* give the same outcome, the same error included.
C5_Original == SameCallAgain => outcome = prev_outcome

\* C5 amended: two mappings that agree on every declared parameter name
\* give the same Resolved Call or return value, or an error of the same
\* type naming the same parameter; valid_args of a ParameterError lists the
\* keys of the mapping it was raised on.
C5_ExtraKeysIgnored ==
    SameCallAgain =>
        /\ [outcome EXCEPT !.valid_args = <<>>]
              = [prev_outcome EXCEPT !.valid_args = <<>>]
        /\ outcome.kind = "ParameterError" =>
              /\ outcome.valid_args = keys(arg_data)
              /\ prev_outcome.valid_args = keys(prev_data)

C5_Witness ==
    /\ SameCallAgain
    /\ HasKey(arg_data, ExtraKey)
    /\ ~HasKey(prev_data, ExtraKey)
    /\ N >= 1
    /\ outcome.kind \in {"resolved", "returned"}

\* C6: when populate_args succeeds, positional_args holds one value per
\* positional-only parameter, in declared order: the mapping's value, else
\* the default.
C6_PositionalOrder ==
    (op = "populate_args" /\ outcome.kind = "resolved") =>
        outcome.args = [j \in 1..Len(PositionalOnly) |->
                           Resolved(PositionalOnly[j], arg_data)]

C6_Witness ==
    /\ op = "populate_args"
    /\ outcome.kind = "resolved"
    /\ Len(PositionalOnly) >= 2
    /\ outcome.args[1] # outcome.args[2]
    /\ Len(arg_data) >= 1
    /\ arg_data[1][1] = func.params[2].name

\* C7: when populate_args succeeds, the keys of keyword_args are the names
\* of the keyword-only and positional-or-keyword parameters, each with the
\* mapping's value, else the default.
C7_KeywordArgs ==
    (op = "populate_args" /\ outcome.kind = "resolved") =>
        /\ DOMAIN outcome.kwargs = KeywordNames
        /\ \A n \in KeywordNames :
              outcome.kwargs[n] = Resolved(ParamNamed(n), arg_data)

C7_Witness ==
    /\ op = "populate_args"
    /\ outcome.kind = "resolved"
    /\ HasKey(arg_data, ExtraKey)
    /\ Len(PositionalOnly) >= 1
    /\ KeywordNames # {}

\* C8: for a callable that declares a variable parameter, populate_args
\* never returns a Resolved Call and call_with_args never invokes the
\* callable or returns a result.
C8_NeverResolved ==
    (Called /\ HasVar) =>
        /\ outcome.kind \notin {"resolved", "returned", "raised"}
        /\ outcome.args = <<>>
        /\ DOMAIN outcome.kwargs = {}
        /\ outcome.value = <<>>
        /\ invocations = <<>>

C8_Witness ==
    /\ op = "call_with_args"
    /\ \E i \in 1..N :
          /\ IsVar(func.params[i].kind)
          /\ HasKey(arg_data, func.params[i].name)
          /\ \A j \in 1..N : j # i => HasKey(arg_data, func.params[j].name)

\* C9: call_with_args raises the error of the resolution without invoking
\* the callable; otherwise it invokes the callable once with the Resolved
\* Call and yields what the callable returned or raised.
C9_Composition ==
    op = "call_with_args" =>
        IF AnyFails
        THEN /\ IsErrorOf(outcome, FirstFailing)
             /\ invocations = <<>>
             /\ outcome.value = <<>>
        ELSE /\ Len(invocations) = 1
             /\ invocations[1][1] = [j \in 1..Len(PositionalOnly) |->
                                       Resolved(PositionalOnly[j], arg_data)]
             /\ invocations[1][2] = [n \in KeywordNames |->
                                       Resolved(ParamNamed(n), arg_data)]
             /\ outcome.kind =
                   (IF func.body = "return" THEN "returned" ELSE "raised")
             /\ outcome.value = [i \in 1..N |->
                                   Resolved(func.params[i], arg_data)]

C9_Witness ==
    /\ op = "call_with_args"
    /\ outcome.kind = "raised"
    /\ Len(invocations) = 1
    /\ N >= 1

\* C10: the error raised is that of the first declared parameter that
\* fails, and no parameter declared after it is looked up.
C10_FirstError ==
    (Called /\ AnyFails) =>
        /\ IsErrorOf(outcome, FirstFailing)
        /\ \A i \in 1..N :
              i > FirstFailing =>
                 \A k \in 1..Len(looked) : looked[k] # func.params[i].name
        /\ \A i \in 1..(FirstFailing - 1) :
              \E k \in 1..Len(looked) : looked[k] = func.params[i].name

C10_Witness ==
    /\ Called
    /\ N >= 2
    /\ Missing(func.params[1], arg_data)
    /\ IsVar(func.params[2].kind)
    /\ outcome.kind = "ParameterError"

====
